---------------------------- MODULE Spec2Model ----------------------------
(***************************************************************************)
(* Rent-versus-own scenario simulator (rent_vs_own/model.py, schemas.py).  *)
(*                                                                         *)
(* Python floats are modelled as a binary floating-point format with Prec  *)
(* significand bits, round-to-nearest-even, and gradual underflow: a float *)
(* is an integer count of units of 2^-FracBits whose magnitude has at most *)
(* Prec significant bits.  Every arithmetic operation computes the exact   *)
(* result and rounds it once, as IEEE-754 does; the two uses of ** are     *)
(* the correctly rounded power and 12th root.  Only finite values are      *)
(* modelled (no NaN, no infinity, no signed zero).                         *)
(***************************************************************************)
EXTENDS Integers, Sequences, FiniteSets, TLC

\* ------------------------------------------------------------------------
\* Bounds of the model
\* ------------------------------------------------------------------------
Prec == 5
FracBits == 10
MaxTerm == 4
MaxHorizon == 2

\* ------------------------------------------------------------------------
\* Floating-point arithmetic
\* ------------------------------------------------------------------------
RECURSIVE Pow2(_)
Pow2(k) == IF k <= 0 THEN 1 ELSE 2 * Pow2(k - 1)

RECURSIVE BitLen(_)
BitLen(n) == IF n <= 0 THEN 0 ELSE 1 + BitLen(n \div 2)

RECURSIVE TrailingZeros(_)
TrailingZeros(n) == IF n = 0 \/ n % 2 = 1 THEN 0 ELSE 1 + TrailingZeros(n \div 2)

Abs(n) == IF n < 0 THEN -n ELSE n

Sign(n) == IF n < 0 THEN -1 ELSE 1

Unit == Pow2(FracBits)

\* Granularity (spacing of representable values) around a magnitude of q units.
Ulp(q) == IF BitLen(q) > Prec THEN Pow2(BitLen(q) - Prec) ELSE 1

\* The float nearest to the exact value num/den units (den > 0), ties to even.
RoundUnits(num, den) ==
    LET a == Abs(num)
        d == den * Ulp(a \div den)
        k == a \div d
        r == a - k * d
        up == (2 * r > d) \/ (2 * r = d /\ k % 2 = 1)
    IN  Sign(num) * (IF up THEN k + 1 ELSE k) * (d \div den)

\* int -> float conversion
FromInt(n) == RoundUnits(n * Unit, 1)

\* the float nearest to the rational n/d
FromRat(n, d) == RoundUnits(n * Unit, d)

FAdd(a, b) == RoundUnits(a + b, 1)

FSub(a, b) == RoundUnits(a - b, 1)

OddPart(n) == Abs(n) \div Pow2(TrailingZeros(Abs(n)))

FMul(a, b) ==
    IF a = 0 \/ b = 0 THEN 0
    ELSE LET e == TrailingZeros(Abs(a)) + TrailingZeros(Abs(b)) - FracBits
             m == Sign(a) * Sign(b) * OddPart(a) * OddPart(b)
         IN  IF e >= 0 THEN RoundUnits(m * Pow2(e), 1)
                       ELSE RoundUnits(m, Pow2(-e))

\* a / b for b # 0 (the caller raises ZeroDivisionError when b = 0)
FDiv(a, b) ==
    IF a = 0 THEN 0
    ELSE LET e == TrailingZeros(Abs(a)) + FracBits - TrailingZeros(Abs(b))
             m == Sign(a) * Sign(b) * OddPart(a)
         IN  IF e >= 0 THEN RoundUnits(m * Pow2(e), OddPart(b))
                       ELSE RoundUnits(m, OddPart(b) * Pow2(-e))

FMax(a, b) == IF b > a THEN b ELSE a

FMin(a, b) == IF b < a THEN b ELSE a

\* Naturals beyond the machine word: little-endian sequences of limbs.
Limb == Pow2(12)

RECURSIVE BigMulSmall(_, _, _)
BigMulSmall(b, y, carry) ==
    IF b = <<>> THEN (IF carry = 0 THEN <<>> ELSE <<carry>>)
    ELSE LET t == Head(b) * y + carry
         IN  <<t % Limb>> \o BigMulSmall(Tail(b), y, t \div Limb)

RECURSIVE BigFromInt(_)
BigFromInt(n) == IF n = 0 THEN <<>> ELSE <<n % Limb>> \o BigFromInt(n \div Limb)

RECURSIVE BigTimesPow(_, _, _)
BigTimesPow(b, y, n) == IF n <= 0 THEN b ELSE BigTimesPow(BigMulSmall(b, y, 0), y, n - 1)

\* -1, 0, 1 as a < b, a = b, a > b
RECURSIVE BigCmpFrom(_, _, _)
BigCmpFrom(a, b, i) ==
    IF i = 0 THEN 0
    ELSE IF a[i] < b[i] THEN -1
    ELSE IF a[i] > b[i] THEN 1
    ELSE BigCmpFrom(a, b, i - 1)

BigCmp(a, b) ==
    IF Len(a) < Len(b) THEN -1
    ELSE IF Len(a) > Len(b) THEN 1
    ELSE BigCmpFrom(a, b, Len(a))

\* z * x^n compared with 2^((n+1)*FracBits + 1): z half-units against
\* x^(-n) for x units, both exact
PowNegCmp(z, x, n) ==
    BigCmp(BigTimesPow(BigFromInt(z), x, n),
           BigTimesPow(BigTimesPow(<<1>>, Unit, n + 1), 2, 1))

\* the largest z in lo..hi-1 with z * x^n <= 2^((n+1)*FracBits + 1)
RECURSIVE PowNegSearch(_, _, _, _)
PowNegSearch(x, n, lo, hi) ==
    IF hi - lo <= 1 THEN lo
    ELSE LET mid == (lo + hi) \div 2
         IN  IF PowNegCmp(mid, x, n) <= 0 THEN PowNegSearch(x, n, mid, hi)
                                          ELSE PowNegSearch(x, n, lo, mid)

\* x ** (-n) for a float x >= 1 and an int n > 0: the float nearest to
\* 1 / x^n, found from its floor z in half-units
FPowNeg(x, n) ==
    LET z == PowNegSearch(x, n, 0, 2 * Unit + 1)
        exact == PowNegCmp(z, x, n) = 0
        g == Ulp(z \div 2)
        k == z \div (2 * g)
        r == z - k * 2 * g
        up == (r > g) \/ (r = g /\ (~exact \/ k % 2 = 1))
    IN  (IF up THEN k + 1 ELSE k) * g

\* y^12 compared with x * 2^(11*FracBits): the 12th power of y units
\* against x units, both exact.
Root12Cmp(y, x) ==
    BigCmp(BigTimesPow(<<1>>, y, 12),
           BigTimesPow(BigFromInt(x), Pow2(11), FracBits))

\* the largest y in lo..hi-1 with y^12 <= x (lo satisfies it, hi does not)
RECURSIVE Root12Search(_, _, _)
Root12Search(x, lo, hi) ==
    IF hi - lo <= 1 THEN lo
    ELSE LET mid == (lo + hi) \div 2
         IN  IF Root12Cmp(mid, x) <= 0 THEN Root12Search(x, mid, hi)
                                       ELSE Root12Search(x, lo, mid)

\* x ** (1 / 12.0) for a float x > 0: the float nearest to the 12th root
FRoot12(x) ==
    LET y == Root12Search(x, 1, 4 * Unit)
        exact == Root12Cmp(y, x) = 0
        g == Ulp(y)
        k == y \div g
        r == y - k * g
        up == IF g = 1 THEN FALSE
              ELSE (2 * r > g) \/ (2 * r = g /\ (~exact \/ k % 2 = 1))
    IN  (IF up THEN k + 1 ELSE k) * g

\* ------------------------------------------------------------------------
\* Optional values: None, or a value wrapped in a one-element sequence
\* ------------------------------------------------------------------------
None == <<>>

Some(v) == <<v>>

Last(seq) == seq[Len(seq)]

\* ------------------------------------------------------------------------
\* Inputs of a run
\* ------------------------------------------------------------------------
One == FromInt(1)

LoanAmounts == {FromInt(-1), 0, FromInt(1), FromInt(3)}

\* annual percentages: negative, zero, one so small that 1 + monthly_rate
\* rounds to 1.0 (as 1e-15 does in binary64), and two ordinary ones
InterestRates == {FromInt(-1), 0, FromInt(1), FromInt(200), FromInt(400)}

LoanTerms == -1 .. MaxTerm

PropertyValues == {FromInt(2)}

Horizons == 0 .. MaxHorizon

AppreciationRates == {FromInt(-1), FromRat(-1, 2), FromInt(1)}

InvestmentReturns == {FromInt(-1), 0, FromInt(1)}

SavingsRates == {FromRat(-1, 2), 0, FromRat(1, 2), FromRat(3, 2)}

\* LocationFinancialDefaults: a dataclass without validation
LocationFinancialDefaults ==
    [median_income : {FromInt(24)},
     median_rent : {One},
     property_value : PropertyValues,
     loan_amount : LoanAmounts,
     interest_rate : InterestRates,
     loan_term_months : LoanTerms,
     monthly_taxes : {One},
     monthly_insurance : {FromRat(1, 2)},
     monthly_utilities : {FromRat(1, 4)}]

\* The keyword arguments the caller passes to ScenarioAssumptions(...)
AssumptionArgs ==
    [horizon_years : Horizons,
     appreciation_rate : AppreciationRates,
     investment_return : InvestmentReturns,
     savings_rate_of_income : SavingsRates]

owner_non_pi_costs(d) ==
    FAdd(FAdd(d.monthly_taxes, d.monthly_insurance), d.monthly_utilities)

\* ------------------------------------------------------------------------
\* schemas.py: validation and derived values
\* ------------------------------------------------------------------------
\* __post_init__ without the horizon check
PostInitErrorNoHorizon(a) ==
    IF ~(0 <= a.savings_rate_of_income /\ a.savings_rate_of_income <= One)
    THEN Some("savings_rate_of_income must be between 0 and 1")
    ELSE None

\* ScenarioAssumptions.__post_init__: the message of the ValueError it
\* raises, or None
PostInitError(a) ==
    IF a.horizon_years <= 0 THEN Some("horizon_years must be positive")
    ELSE IF ~(0 <= a.savings_rate_of_income /\ a.savings_rate_of_income <= One)
    THEN Some("savings_rate_of_income must be between 0 and 1")
    ELSE None

\* better_option comparing with >= instead of >
better_option_ge(r) ==
    IF r.owner_equity >= r.renter_portfolio THEN "owning"
    ELSE IF r.renter_portfolio > r.owner_equity THEN "renting"
    ELSE "tie"

\* ComparisonResult.better_option
better_option(r) ==
    IF r.owner_equity > r.renter_portfolio THEN "owning"
    ELSE IF r.renter_portfolio > r.owner_equity THEN "renting"
    ELSE "tie"

\* ------------------------------------------------------------------------
\* model.py: rate conversion and amortization
\* ------------------------------------------------------------------------
annual_to_monthly_rate(annual_rate_pct) ==
    IF annual_rate_pct <= 0 THEN 0
    ELSE FDiv(FDiv(annual_rate_pct, FromInt(100)), FromInt(12))

\* annual_to_monthly_growth: [exc, val]; exc is the exception raised or ""
annual_to_monthly_growth(annual_rate) ==
    IF annual_rate <= -One
    THEN [exc |-> "ValueError: annual rate must be greater than -100%", val |-> 0]
    ELSE [exc |-> "", val |-> FSub(FRoot12(FAdd(One, annual_rate)), One)]

\* monthly_mortgage_payment returning the principal, not 0.0, for a
\* degenerate loan
monthly_mortgage_payment_principal(principal, annual_rate_pct, term_months) ==
    IF principal <= 0 \/ term_months <= 0 THEN [exc |-> "", val |-> principal]
    ELSE LET monthly_rate == annual_to_monthly_rate(annual_rate_pct)
             discount == FPowNeg(FAdd(One, monthly_rate), term_months)
         IN  IF monthly_rate = 0
             THEN [exc |-> "", val |-> FDiv(principal, FromInt(term_months))]
             ELSE IF FSub(One, discount) = 0
             THEN [exc |-> "ZeroDivisionError: float division by zero", val |-> 0]
             ELSE [exc |-> "",
                   val |-> FDiv(FMul(principal, monthly_rate), FSub(One, discount))]

\* monthly_mortgage_payment: [exc, val]; the division by (1 - discount)
\* raises ZeroDivisionError when discount rounds to 1.0
monthly_mortgage_payment(principal, annual_rate_pct, term_months) ==
    IF principal <= 0 \/ term_months <= 0 THEN [exc |-> "", val |-> 0]
    ELSE LET monthly_rate == annual_to_monthly_rate(annual_rate_pct)
             discount == FPowNeg(FAdd(One, monthly_rate), term_months)
         IN  IF monthly_rate = 0
             THEN [exc |-> "", val |-> FDiv(principal, FromInt(term_months))]
             ELSE IF FSub(One, discount) = 0
             THEN [exc |-> "ZeroDivisionError: float division by zero", val |-> 0]
             ELSE [exc |-> "",
                   val |-> FDiv(FMul(principal, monthly_rate), FSub(One, discount))]

\* a loop that stops one month early
MonthsShort(a) == a.horizon_years * 12 - 1

\* months = assumptions.horizon_years * 12
Months(a) == a.horizon_years * 12

\* ------------------------------------------------------------------------
\* model.py: the body of the monthly loop, one expression per statement
\* ------------------------------------------------------------------------
InterestPayment(bal, rate) == IF bal > 0 THEN FMul(bal, rate) ELSE 0

PaymentDue(bal, payment, m, term) == bal > 0 /\ payment > 0 /\ m <= term

PrincipalPayment(bal, payment, interest, m, term) ==
    IF PaymentDue(bal, payment, m, term)
    THEN FMin(FMax(FSub(payment, interest), 0), bal)
    ELSE 0

BalanceAfter(bal, payment, interest, m, term) ==
    IF PaymentDue(bal, payment, m, term)
    THEN FMax(FSub(bal, PrincipalPayment(bal, payment, interest, m, term)), 0)
    ELSE bal

\* equity without the floor at 0
EquityNoFloor(hv, bal) == FSub(hv, bal)

Equity(hv, bal) == FMax(FSub(hv, bal), 0)

\* break-even recorded at every crossing, not only the first
BreakEvenOverwrite(be, pf, eq, m) == IF pf >= eq THEN Some(m) ELSE be

BreakEven(be, pf, eq, m) == IF be = None /\ pf >= eq THEN Some(m) ELSE be

MonthlySnapshot(m, hv, eq, bal, pf) ==
    [month |-> m, home_value |-> hv, equity |-> eq,
     loan_balance |-> bal, renter_portfolio |-> pf]

\* ------------------------------------------------------------------------
\* State
\* ------------------------------------------------------------------------
VARIABLES
    pc,                     \* "new", "constructed", "loop", "done", "error"
    defaults,               \* the LocationFinancialDefaults of the run
    args,                   \* the arguments given to ScenarioAssumptions
    assumptions,            \* the constructed ScenarioAssumptions, or None
    error,                  \* the exception that ended the run, or None
    months,
    mortgage_payment,
    mortgage_rate_monthly,
    appreciation_monthly,
    investment_monthly,
    owner_monthly_cost,
    renter_monthly_cost,
    monthly_investment,
    balance,
    home_value,
    portfolio,
    break_even,
    timeline,
    month,                  \* the loop variable: the last month executed
    interest_payment,
    principal_payment,
    result                  \* the returned ComparisonResult, or None

setup_vars == <<months, mortgage_payment, mortgage_rate_monthly,
                appreciation_monthly, investment_monthly, owner_monthly_cost,
                renter_monthly_cost, monthly_investment>>

loop_vars == <<balance, home_value, portfolio, break_even, timeline, month,
               interest_payment, principal_payment>>

vars == <<pc, defaults, args, assumptions, error, setup_vars, loop_vars, result>>

Init ==
    /\ pc = "new"
    /\ defaults \in LocationFinancialDefaults
    /\ args \in AssumptionArgs
    /\ assumptions = None
    /\ error = None
    /\ months = 0
    /\ mortgage_payment = 0
    /\ mortgage_rate_monthly = 0
    /\ appreciation_monthly = 0
    /\ investment_monthly = 0
    /\ owner_monthly_cost = 0
    /\ renter_monthly_cost = 0
    /\ monthly_investment = 0
    /\ balance = 0
    /\ home_value = 0
    /\ portfolio = 0
    /\ break_even = None
    /\ timeline = <<>>
    /\ month = 0
    /\ interest_payment = 0
    /\ principal_payment = 0
    /\ result = None

\* ScenarioAssumptions(...): the dataclass __init__ followed by __post_init__
NewScenarioAssumptions ==
    /\ pc = "new"
    /\ IF PostInitError(args) # None
       THEN /\ pc' = "error"
            /\ error' = Some("ValueError: " \o PostInitError(args)[1])
            /\ UNCHANGED assumptions
       ELSE /\ pc' = "constructed"
            /\ assumptions' = Some(args)
            /\ UNCHANGED error
    /\ UNCHANGED <<defaults, args, setup_vars, loop_vars, result>>

\* compare_scenarios, lines 17-37: everything before the loop.  The three
\* calls that can raise are made in the order of the source.  The caller
\* always passes the assumptions it constructed (a dataclass instance is
\* truthy), so `assumptions or ScenarioAssumptions()` keeps them.
SetupError(d, a) ==
    LET mp == monthly_mortgage_payment(d.loan_amount, d.interest_rate,
                                       d.loan_term_months)
        ap == annual_to_monthly_growth(a.appreciation_rate)
        iv == annual_to_monthly_growth(a.investment_return)
    IN  IF mp.exc # "" THEN Some(mp.exc)
        ELSE IF ap.exc # "" THEN Some(ap.exc)
        ELSE IF iv.exc # "" THEN Some(iv.exc)
        ELSE None

CompareScenariosSetup ==
    /\ pc = "constructed"
    /\ LET d == defaults
           a == assumptions[1]
       IN  IF SetupError(d, a) # None
           THEN /\ pc' = "error"
                /\ error' = SetupError(d, a)
                /\ UNCHANGED <<setup_vars, loop_vars>>
           ELSE /\ pc' = "loop"
                /\ months' = Months(a)
                /\ mortgage_payment' =
                       monthly_mortgage_payment(d.loan_amount, d.interest_rate,
                                                d.loan_term_months).val
                /\ mortgage_rate_monthly' = annual_to_monthly_rate(d.interest_rate)
                /\ appreciation_monthly' =
                       annual_to_monthly_growth(a.appreciation_rate).val
                /\ investment_monthly' =
                       annual_to_monthly_growth(a.investment_return).val
                /\ owner_monthly_cost' = FAdd(mortgage_payment', owner_non_pi_costs(d))
                /\ renter_monthly_cost' = d.median_rent
                /\ monthly_investment' =
                       FMul(FDiv(d.median_income, FromInt(12)),
                            a.savings_rate_of_income)
                /\ balance' = d.loan_amount
                /\ home_value' = d.property_value
                /\ portfolio' = 0
                /\ break_even' = None
                /\ timeline' = <<>>
                /\ UNCHANGED <<month, interest_payment, principal_payment, error>>
    /\ UNCHANGED <<defaults, args, assumptions, result>>

\* compare_scenarios, lines 39-63: one iteration of the loop
MonthStep ==
    /\ pc = "loop"
    /\ month < months
    /\ LET m == month + 1
           term == defaults.loan_term_months
           interest == InterestPayment(balance, mortgage_rate_monthly)
       IN  /\ month' = m
           /\ interest_payment' = interest
           /\ principal_payment' =
                  PrincipalPayment(balance, mortgage_payment, interest, m, term)
           /\ balance' = BalanceAfter(balance, mortgage_payment, interest, m, term)
           /\ home_value' = FMul(home_value, FAdd(One, appreciation_monthly))
           /\ portfolio' = FAdd(FMul(portfolio, FAdd(One, investment_monthly)),
                                monthly_investment)
           /\ break_even' = BreakEven(break_even, portfolio',
                                      Equity(home_value', balance'), m)
           /\ timeline' = Append(timeline,
                  MonthlySnapshot(m, home_value', Equity(home_value', balance'),
                                  balance', portfolio'))
    /\ UNCHANGED <<pc, defaults, args, assumptions, error, setup_vars, result>>

\* compare_scenarios, lines 65-74: the ComparisonResult returned after the loop
ComparisonResult ==
    [defaults |-> defaults,
     assumptions |-> assumptions[1],
     owner_monthly_cost |-> owner_monthly_cost,
     renter_monthly_cost |-> renter_monthly_cost,
     owner_equity |-> IF timeline # <<>> THEN Last(timeline).equity ELSE 0,
     renter_portfolio |->
         IF timeline # <<>> THEN Last(timeline).renter_portfolio ELSE 0,
     break_even_month |-> break_even,
     timeline |-> timeline]

Return ==
    /\ pc = "loop"
    /\ month >= months
    /\ pc' = "done"
    /\ result' = Some(ComparisonResult)
    /\ UNCHANGED <<defaults, args, assumptions, error, setup_vars, loop_vars>>

Next ==
    \/ NewScenarioAssumptions
    \/ CompareScenariosSetup
    \/ MonthStep
    \/ Return

Spec == Init /\ [][Next]_vars

\* ------------------------------------------------------------------------
\* Properties
\* ------------------------------------------------------------------------
Snapshots == {timeline[i] : i \in 1 .. Len(timeline)}

InvalidConstruction ==
    \/ args.horizon_years <= 0
    \/ ~(0 <= args.savings_rate_of_income /\ args.savings_rate_of_income <= One)

InvalidGrowth ==
    \/ args.appreciation_rate <= -One
    \/ args.investment_return <= -One

\* C1: every returned result has a timeline of exactly horizon_years * 12
\* snapshots, the snapshot at position i (1-based here) carrying month i;
\* snapshots are appended one per month in increasing order.
C1_TimelineOnePerMonth ==
    /\ \A i \in 1 .. Len(timeline) : timeline[i].month = i
    /\ Len(timeline) = month
    /\ result # None =>
          /\ Len(result[1].timeline) = args.horizon_years * 12
          /\ \A i \in 1 .. Len(result[1].timeline) : result[1].timeline[i].month = i

C1_Witness ==
    /\ result # None
    /\ Len(result[1].timeline) = 24
    /\ result[1].timeline[24].month = 24

\* C2: loan_balance >= 0 in every snapshot of every timeline, for all the
\* defaults the simulator accepts (including loan_amount <= 0).
C2_BalanceNonNegative ==
    \A s \in Snapshots : s.loan_balance >= 0

\* C3: in every snapshot equity >= 0 and equity = max(home_value -
\* loan_balance, 0) of that same snapshot, also when the loan balance
\* exceeds the home value.
C3_EquityFloored ==
    \A s \in Snapshots :
        /\ s.equity >= 0
        /\ s.equity = FMax(FSub(s.home_value, s.loan_balance), 0)

C3_Witness ==
    /\ args.appreciation_rate < 0
    /\ timeline # <<>>
    /\ timeline[1].loan_balance < timeline[1].home_value
    /\ timeline[1].equity > 0
    /\ Last(timeline).loan_balance > Last(timeline).home_value
    /\ Last(timeline).equity = 0

\* C4: in a returned result, break_even_month = m means the snapshot of
\* month m has renter_portfolio >= equity and every earlier snapshot has
\* renter_portfolio < equity; break_even_month = None means no snapshot has
\* renter_portfolio >= equity.
C4_BreakEvenFirstCrossing ==
    result # None =>
        LET r == result[1]
            tl == r.timeline
            be == r.break_even_month
        IN  /\ be # None =>
                  /\ be[1] \in 1 .. Len(tl)
                  /\ tl[be[1]].renter_portfolio >= tl[be[1]].equity
                  /\ \A i \in 1 .. (be[1] - 1) :
                         tl[i].renter_portfolio < tl[i].equity
            /\ be = None =>
                  \A i \in 1 .. Len(tl) : tl[i].renter_portfolio < tl[i].equity

C4_Witness ==
    /\ result # None
    /\ result[1].break_even_month # None
    /\ result[1].break_even_month[1] > 1
    /\ result[1].break_even_month[1] < Len(result[1].timeline)
    /\ Last(result[1].timeline).renter_portfolio >= Last(result[1].timeline).equity

\* C5: when payments are made (loan_amount > 0, loan_term_months > 0,
\* mortgage payment positive) and the horizon covers the term, loan_balance
\* is 0 in the snapshot of month loan_term_months and in every later one.
C5_PaidOffByTerm ==
    ( /\ pc \in {"loop", "done"}
      /\ defaults.loan_amount > 0
      /\ defaults.loan_term_months > 0
      /\ mortgage_payment > 0
      /\ months >= defaults.loan_term_months )
    => \A s \in Snapshots :
           s.month >= defaults.loan_term_months => s.loan_balance = 0

\* C6: with interest_rate = 0, loan_amount > 0 and loan_term_months > 0 the
\* payment is loan_amount / loan_term_months, every month before the last of
\* the term pays exactly that amount (loan_balance after month k is
\* loan_amount - k * payment), the last payment is capped at the remaining
\* balance, and loan_balance is exactly 0 at month loan_term_months and
\* strictly positive in every earlier month.
C6_ZeroRateStraightLine ==
    ( /\ pc \in {"loop", "done"}
      /\ defaults.interest_rate = 0
      /\ defaults.loan_amount > 0
      /\ defaults.loan_term_months > 0 )
    => /\ mortgage_payment = FDiv(defaults.loan_amount,
                                  FromInt(defaults.loan_term_months))
       /\ \A s \in Snapshots :
              /\ s.month < defaults.loan_term_months =>
                     /\ s.loan_balance =
                            FSub(defaults.loan_amount,
                                 FMul(FromInt(s.month), mortgage_payment))
                     /\ s.loan_balance > 0
              /\ s.month = defaults.loan_term_months => s.loan_balance = 0

\* C7: invalid assumptions never get past validation: a non-positive
\* horizon or a savings rate outside [0, 1] is rejected by the constructor,
\* a growth rate <= -1 by the setup of compare_scenarios; in the error state
\* no monthly step has run, no snapshot exists and no result is returned.
C7_InvalidRejectedBeforeSimulation ==
    /\ InvalidConstruction => pc \in {"new", "error"} /\ assumptions = None
    /\ InvalidGrowth => pc \in {"new", "constructed", "error"}
    /\ (InvalidConstruction \/ InvalidGrowth \/ pc = "error") =>
           /\ month = 0
           /\ timeline = <<>>
           /\ result = None
    /\ pc = "error" <=> error # None

C7_Witness ==
    /\ pc = "error"
    /\ ~InvalidConstruction
    /\ args.investment_return <= -One
    /\ args.appreciation_rate > -One
    /\ error = Some("ValueError: annual rate must be greater than -100%")

\* C8: in a returned result owner_equity and renter_portfolio are those of
\* the last snapshot (0 for an empty timeline), and better_option is
\* "owning" iff owner_equity > renter_portfolio, "renting" iff
\* renter_portfolio > owner_equity, "tie" iff they are equal.
C8_TerminalValues ==
    result # None =>
        LET r == result[1]
        IN  /\ r.timeline # <<>> =>
                  /\ r.owner_equity = Last(r.timeline).equity
                  /\ r.renter_portfolio = Last(r.timeline).renter_portfolio
            /\ r.timeline = <<>> => r.owner_equity = 0 /\ r.renter_portfolio = 0
            /\ better_option(r) = "owning" <=> r.owner_equity > r.renter_portfolio
            /\ better_option(r) = "renting" <=> r.renter_portfolio > r.owner_equity
            /\ better_option(r) = "tie" <=> r.owner_equity = r.renter_portfolio

C8_Witness ==
    /\ result # None
    /\ Len(result[1].timeline) = 12
    /\ result[1].owner_equity = Last(result[1].timeline).equity
    /\ result[1].owner_equity = result[1].renter_portfolio
    /\ better_option(result[1]) = "tie"

\* C9: with loan_amount <= 0 or loan_term_months <= 0 the mortgage payment
\* is 0, the run fails only on invalid assumptions and otherwise returns a
\* full timeline, owner_monthly_cost is owner_non_pi_costs, and loan_balance
\* in every snapshot is the initial loan_amount.
C9_DegenerateLoan ==
    (defaults.loan_amount <= 0 \/ defaults.loan_term_months <= 0) =>
        /\ pc = "error" => InvalidConstruction \/ InvalidGrowth
        /\ pc \in {"loop", "done"} =>
              /\ mortgage_payment = 0
              /\ owner_monthly_cost =
                     FAdd(FAdd(defaults.monthly_taxes, defaults.monthly_insurance),
                          defaults.monthly_utilities)
              /\ balance = defaults.loan_amount
              /\ \A s \in Snapshots : s.loan_balance = defaults.loan_amount
        /\ result # None => Len(result[1].timeline) = args.horizon_years * 12

C9_Witness ==
    /\ result # None
    /\ defaults.loan_amount > 0
    /\ defaults.loan_term_months <= 0
    /\ defaults.interest_rate > 0
    /\ Len(result[1].timeline) = 12
    /\ Last(result[1].timeline).loan_balance = defaults.loan_amount

\* C10: in every month the principal paid is at most the balance at the
\* start of the month, so loan_balance never increases from one snapshot to
\* the next, and after month loan_term_months the balance no longer changes.
C10_NoOverpayNoLatePay ==
    [][ month' = month + 1 =>
          /\ principal_payment' <= balance
          /\ balance' <= balance
          /\ month' > defaults.loan_term_months => balance' = balance ]_vars

=============================================================================
